---- MODULE Spec2Model ----
(***************************************************************************)
(* Model of to_atom.py: main() reads a JSON document of observations from  *)
(* a file or from standard input, json_to_atom() maps every record of      *)
(* `results` to one Atom entry, format_xml() serialises the tree and       *)
(* main() prints it.                                                       *)
(*                                                                         *)
(* Text is a sequence of pieces.  Data that the code inspects or rewrites  *)
(* character by character (URLs, place names, rendered numbers) is split   *)
(* into one-character pieces; the literal parts of the code's f-strings    *)
(* are kept as one piece each, spelled as in the source.                   *)
(***************************************************************************)
EXTENDS Integers, Sequences, FiniteSets, TLC

(* ------------------------------ bounds -------------------------------- *)

\* longest `results` list of an input document
MaxResults == 2
\* longest `observation_photos` list of a record
MaxPhotos == 2
\* number of fragments a URL of the rewrite specification is assembled from
MaxFrags == 3

(* --------------------------- JSON values ------------------------------ *)

\* A scalar member of a JSON object as dict.get() sees it: the key is
\* missing ("absent"), or its value is null, a string or an integer.
JAbsent == [k |-> "absent", s |-> <<>>, n |-> 0]
JNull == [k |-> "null", s |-> <<>>, n |-> 0]
JStr(chars) == [k |-> "str", s |-> chars, n |-> 0]
JInt(i) == [k |-> "int", s |-> <<>>, n |-> i]

\* `coordinates` of a geojson object: missing, null or [lon, lat].
CAbsent == [k |-> "absent", lon |-> 0, lat |-> 0]
CNull == [k |-> "null", lon |-> 0, lat |-> 0]
CArr(lon, lat) == [k |-> "arr", lon |-> lon, lat |-> lat]

\* `geojson` of a record: missing, null or an object.
GAbsent == [k |-> "absent", coordinates |-> CAbsent]
GNull == [k |-> "null", coordinates |-> CAbsent]
GObj(c) == [k |-> "obj", coordinates |-> c]

\* `photo` of a photo wrapper: missing, null or an object with the optional
\* keys url and attribution.
PAbsent == [k |-> "absent", url |-> JAbsent, attribution |-> JAbsent]
PNull == [k |-> "null", url |-> JAbsent, attribution |-> JAbsent]
PObj(u, a) == [k |-> "obj", url |-> u, attribution |-> a]

\* `observation_photos` of a record: missing, null or a list of wrappers.
LAbsent == [k |-> "absent", items |-> <<>>]
LNull == [k |-> "null", items |-> <<>>]
LArr(ws) == [k |-> "arr", items |-> ws]

\* `results` of the document: missing or a list of records.
RAbsent == [k |-> "absent", items |-> <<>>]
RArr(rs) == [k |-> "arr", items |-> rs]

(* ------------------------ Python's conversions ------------------------ *)

Digit(d) == CASE d = 0 -> "0" [] d = 1 -> "1" [] d = 2 -> "2" [] d = 3 -> "3"
              [] d = 4 -> "4" [] d = 5 -> "5" [] d = 6 -> "6" [] d = 7 -> "7"
              [] d = 8 -> "8" [] d = 9 -> "9"

RECURSIVE NatStr(_)
NatStr(i) == IF i < 10 THEN <<Digit(i)>> ELSE NatStr(i \div 10) \o <<Digit(i % 10)>>

\* str() of an integer
IntStr(i) == IF i < 0 THEN <<"-">> \o NatStr(0 - i) ELSE NatStr(i)

\* What an f-string field {v} renders for a value dict.get() returned
\* without a default: None for a missing key or a null.
PyFormat(v) == CASE v.k = "str" -> v.s
                 [] v.k = "int" -> IntStr(v.n)
                 [] OTHER -> <<"N", "o", "n", "e">>

\* dict.get(key, default): the default only when the key is missing.
GetDefault(v, default) == IF v.k = "absent" THEN JStr(default) ELSE v

\* Truth value of a scalar: None, "" and 0 are false.
Truthy(v) == CASE v.k = "str" -> v.s # <<>>
               [] v.k = "int" -> v.n # 0
               [] OTHER -> FALSE

\* Truth value of item.get("geojson") and of its .get("coordinates").  An
\* object is true when it has a key; a two-element list is true.
GeoTruthy(g) == g.k = "obj" /\ g.coordinates.k # "absent"
CoordsTruthy(c) == c.k = "arr"

\* Truth value of photo_data.get("photo") and of item.get("observation_photos").
PhotoTruthy(p) == p.k = "obj" /\ (p.url.k # "absent" \/ p.attribution.k # "absent")
ListTruthy(l) == l.k = "arr" /\ l.items # <<>>

(* ------------------------- the URL rewrite ---------------------------- *)

SquareJpeg == <<"s", "q", "u", "a", "r", "e", ".", "j", "p", "e", "g">>
LargeJpeg == <<"l", "a", "r", "g", "e", ".", "j", "p", "e", "g">>

\* s.replace(old, new): scans left to right and replaces every
\* non-overlapping occurrence of old.
RECURSIVE StrReplace(_, _, _)
StrReplace(s, old, new) ==
    IF Len(s) < Len(old) THEN s
    ELSE IF SubSeq(s, 1, Len(old)) = old
         THEN new \o StrReplace(SubSeq(s, Len(old) + 1, Len(s)), old, new)
         ELSE <<Head(s)>> \o StrReplace(Tail(s), old, new)

\* s.replace(old, new, 1): only the first occurrence.
RECURSIVE StrReplaceFirst(_, _, _)
StrReplaceFirst(s, old, new) ==
    IF Len(s) < Len(old) THEN s
    ELSE IF SubSeq(s, 1, Len(old)) = old
         THEN new \o SubSeq(s, Len(old) + 1, Len(s))
         ELSE <<Head(s)>> \o StrReplaceFirst(Tail(s), old, new)

\* Variant: the rewrite stops after the first occurrence.
photo_url_first(url) == StrReplaceFirst(url, SquareJpeg, LargeJpeg)

\* .replace("square.jpeg", "large.jpeg")
photo_url(url) == StrReplace(url, SquareJpeg, LargeJpeg)

(* --------------------------- urllib quote ----------------------------- *)

\* Characters quote() never encodes, with its default safe="/".
Unreserved == {"a", "b", "c", "d", "e", "f", "g", "h", "i", "j", "k", "l", "m",
               "n", "o", "p", "q", "r", "s", "t", "u", "v", "w", "x", "y", "z",
               "A", "B", "C", "D", "E", "F", "G", "H", "I", "J", "K", "L", "M",
               "N", "O", "P", "Q", "R", "S", "T", "U", "V", "W", "X", "Y", "Z",
               "0", "1", "2", "3", "4", "5", "6", "7", "8", "9",
               "_", ".", "-", "~"}
SafeChars == Unreserved \cup {"/"}

\* The code point of the other characters the model's place names use.
CharCode(c) == CASE c = " " -> 32 [] c = "%" -> 37 [] c = "&" -> 38
                 [] c = "," -> 44 [] c = "<" -> 60

HexDigit(d) == CASE d < 10 -> Digit(d) [] d = 10 -> "A" [] d = 11 -> "B"
                 [] d = 12 -> "C" [] d = 13 -> "D" [] d = 14 -> "E" [] d = 15 -> "F"

QuoteChar(c) == IF c \in SafeChars THEN <<c>>
                ELSE <<"%", HexDigit(CharCode(c) \div 16), HexDigit(CharCode(c) % 16)>>

\* Variant: quote_plus(), which writes a space as "+".
RECURSIVE quote_plus(_)
quote_plus(s) ==
    IF s = <<>> THEN <<>>
    ELSE (IF Head(s) = " " THEN <<"+">> ELSE QuoteChar(Head(s))) \o quote_plus(Tail(s))

RECURSIVE quote(_)
quote(s) == IF s = <<>> THEN <<>> ELSE QuoteChar(Head(s)) \o quote(Tail(s))

(* ------------------------- the element tree --------------------------- *)

\* Element.text: None or a string.
NoText == [some |-> FALSE, s |-> <<>>]
Text(t) == [some |-> TRUE, s |-> t]

\* The text an element gets from a value dict.get() returned.
TextOf(v) == IF v.k = "str" THEN Text(v.s) ELSE NoText

\* ET.Element / ET.SubElement: a new element without text or children.
Element(tag, attrs) == [tag |-> tag, attrs |-> attrs, text |-> NoText, kids |-> <<>>]
WithText(e, t) == [e EXCEPT !.text = t]

\* Element.set(name, value): a new attribute goes after the ones set before.
SetAttr(e, name, value) == [e EXCEPT !.attrs = Append(@, [name |-> name, value |-> value])]

\* ET.SubElement(parent, ...): the child is appended after the last child.
SubElement(parent, child) == [parent EXCEPT !.kids = Append(@, child)]

\* ET.SubElement(entry, ...), entry being the last child of the feed.
SubElementOfEntry(feed, child) ==
    [feed EXCEPT !.kids[Len(feed.kids)] = SubElement(@, child)]

(* ---------------------------- format_xml ------------------------------ *)

XmlDeclDefault == <<"<?xml version=\"1.0\" ?>">>
XmlDeclUtf8 == <<"<?xml version=\"1.0\" encoding=\"utf-8\"?>">>

Line(depth, form, e) ==
    [indent |-> 2 * depth, form |-> form, tag |-> e.tag, attrs |-> e.attrs,
     text |-> IF form = "leaf" THEN e.text.s ELSE <<>>]

\* toprettyxml(indent="  "): an element with children is an opening line,
\* its children one level deeper, and a closing line; an element with text
\* only is one line; an element with neither is an empty-element tag.
RECURSIVE PrettyElement(_, _), PrettyKids(_, _)
PrettyElement(e, depth) ==
    IF e.kids # <<>>
    THEN <<Line(depth, "open", e)>> \o PrettyKids(e.kids, depth + 1)
         \o <<Line(depth, "close", e)>>
    ELSE IF e.text.some /\ e.text.s # <<>>
         THEN <<Line(depth, "leaf", e)>>
         ELSE <<Line(depth, "empty", e)>>
PrettyKids(kids, depth) ==
    IF kids = <<>> THEN <<>>
    ELSE PrettyElement(Head(kids), depth) \o PrettyKids(Tail(kids), depth)

DeclLine(decl) == [indent |-> 0, form |-> "decl", tag |-> "?xml", attrs |-> <<>>, text |-> decl]

\* The declaration line with '<?xml version="1.0" ?>' replaced.
ReplaceDecl(line) ==
    IF line.form = "decl" /\ line.text = XmlDeclDefault THEN DeclLine(XmlDeclUtf8) ELSE line

format_xml(element) ==
    LET pretty == <<DeclLine(XmlDeclDefault)>> \o PrettyElement(element, 0)
    IN  [n \in 1..Len(pretty) |-> ReplaceDecl(pretty[n])]

(* ------------------------- the entry's parts -------------------------- *)

ObservationUrl == "https://www.inaturalist.org/observations/"
\* Variant: a record without id gets the bare prefix.
InaturalistUrlBlank(item) ==
    <<ObservationUrl>> \o (IF item.id.k \in {"absent", "null"} THEN <<>> ELSE PyFormat(item.id))

\* f"https://www.inaturalist.org/observations/{obs_id}"
InaturalistUrl(item) == <<ObservationUrl>> \o PyFormat(item.id)

\* Variant: item.get("place_guess") or "Unknown location"
TitlePlaceOr(item) ==
    IF Truthy(item.place_guess) THEN item.place_guess
    ELSE JStr(<<"U", "n", "k", "n", "o", "w", "n", " ", "l", "o", "c", "a", "t", "i", "o", "n">>)

\* f"Brown Pelican at {place}", place = item.get("place_guess", "Unknown location")
TitlePlace(item) ==
    GetDefault(item.place_guess, <<"U", "n", "k", "n", "o", "w", "n", " ",
                                   "l", "o", "c", "a", "t", "i", "o", "n">>)
title_text(item) == <<"Brown Pelican at ">> \o PyFormat(TitlePlace(item))

\* f"<div><p>Location: {item.get('place_guess', 'Unknown')}</p>"
LocationPlace(item) ==
    GetDefault(item.place_guess, <<"U", "n", "k", "n", "o", "w", "n">>)
LocationHtml(item) ==
    <<"<div><p>Location: ">> \o PyFormat(LocationPlace(item)) \o <<"</p>">>

\* x.get(...) on the value dict.get() returned for a key: None has no get.
GetRaises(v) == v.k \in {"absent", "null"}

\* Variant: the guard tests the key, "geojson" in item.
GeoGuardKey(item) == item.geojson.k # "absent"

\* if item.get("geojson") and item.get("geojson").get("coordinates"):
\* the right operand is evaluated only when the left one is true.
GeoGuard(item) == GeoTruthy(item.geojson)
HasCoords(item) == GeoGuard(item) /\ CoordsTruthy(item.geojson.coordinates)
CoordsError(item) ==
    IF GeoGuard(item) /\ GetRaises(item.geojson) THEN "AttributeError" ELSE "none"

\* Variant: the coordinates taken in GeoJSON order.
LatUnswapped(coords) == coords.lon

\* lat, lon = coords[1], coords[0]
Lat(coords) == coords.lat
Lon(coords) == coords.lon

google_maps_url(lat, lon) ==
    <<"https://www.google.com/maps?q=">> \o IntStr(lat) \o <<",">> \o IntStr(lon)

CoordsHtml(item) ==
    IF HasCoords(item)
    THEN LET lat == Lat(item.geojson.coordinates)
             lon == Lon(item.geojson.coordinates)
         IN  <<"<p>Coordinates: <a href=\"">> \o google_maps_url(lat, lon)
             \o <<"\" target=\"_blank\">">> \o IntStr(lat) \o <<", ">> \o IntStr(lon)
             \o <<"</a></p>">>
    ELSE <<>>

\* if photo_data.get("photo") and photo_data.get("photo").get("url")
PhotoGuard(photo_data) == PhotoTruthy(photo_data.photo)
HasUrl(photo_data) == PhotoGuard(photo_data) /\ Truthy(photo_data.photo.url)

\* What one round of either photo loop raises: .get on a photo that is
\* None, .replace on a url that is None.
PhotoError(photo_data) ==
    IF PhotoGuard(photo_data) /\ GetRaises(photo_data.photo) THEN "AttributeError"
    ELSE IF HasUrl(photo_data) /\ photo_data.photo.url.k # "str" THEN "AttributeError"
    ELSE "none"

\* if item.get("observation_photos"): for photo_data in item.get(...)
PhotosGuard(item) == ListTruthy(item.observation_photos)

\* What a pass over the photo list raises: iterating None, or the first
\* round that raises.
PhotosError(item) ==
    IF ~PhotosGuard(item) THEN "none"
    ELSE IF item.observation_photos.k # "arr" THEN "TypeError"
    ELSE LET photos == item.observation_photos.items
             bad == {n \in 1..Len(photos) : PhotoError(photos[n]) # "none"}
         IN  IF bad = {} THEN "none"
             ELSE PhotoError(photos[CHOOSE n \in bad : \A m \in bad : n <= m])

ImgOpen == "<div><img src=\""
ImgClose == "\" alt=\"Observation photo\"/>"

\* The <div> of one photo: the image and, after a line break, the
\* attribution ("" when the key is missing).
PhotoHtml(photo_data) ==
    IF HasUrl(photo_data)
    THEN <<ImgOpen>> \o photo_url(photo_data.photo.url.s) \o <<ImgClose>>
         \o <<"<br/>">> \o PyFormat(GetDefault(photo_data.photo.attribution, <<>>))
         \o <<"</div>">>
    ELSE <<>>

RECURSIVE PhotosLoopHtml(_)
PhotosLoopHtml(photos) ==
    IF photos = <<>> THEN <<>>
    ELSE PhotoHtml(Head(photos)) \o PhotosLoopHtml(Tail(photos))

PhotosHtml(item) ==
    IF PhotosGuard(item)
    THEN <<"<p>Photos:</p>">> \o PhotosLoopHtml(item.observation_photos.items)
    ELSE <<>>

\* What building the content raises.
ContentError(item) ==
    IF CoordsError(item) # "none" THEN CoordsError(item) ELSE PhotosError(item)

html_content(item) ==
    LocationHtml(item) \o CoordsHtml(item) \o PhotosHtml(item) \o <<"</div>">>

ContentElement(item) ==
    WithText(SetAttr(Element("content", <<>>), "type", <<"html">>),
             Text(html_content(item)))

\* Variant: the second pass forgets the rewrite.
EnclosureLinkRaw(photo_data) ==
    SetAttr(SetAttr(SetAttr(Element("link", <<>>), "rel", <<"enclosure">>),
                    "href", photo_data.photo.url.s),
            "type", <<"image/jpeg">>)

\* One link[rel=enclosure] of the second pass over the photo list.
EnclosureLink(photo_data) ==
    SetAttr(SetAttr(SetAttr(Element("link", <<>>), "rel", <<"enclosure">>),
                    "href", photo_url(photo_data.photo.url.s)),
            "type", <<"image/jpeg">>)

RECURSIVE EnclosureLoop(_)
EnclosureLoop(photos) ==
    IF photos = <<>> THEN <<>>
    ELSE (IF HasUrl(Head(photos)) THEN <<EnclosureLink(Head(photos))>> ELSE <<>>)
         \o EnclosureLoop(Tail(photos))

EnclosureLinks(item) ==
    IF PhotosGuard(item)
    THEN EnclosureLoop(item.observation_photos.items)
    ELSE <<>>

\* Variant: the alternate link points at the observations root.
AlternateLinkRoot(url) ==
    SetAttr(SetAttr(Element("link", <<>>), "rel", <<"alternate">>), "href", <<ObservationUrl>>)

AlternateLink(url) ==
    SetAttr(SetAttr(Element("link", <<>>), "rel", <<"alternate">>), "href", url)

\* if item.get("place_guess")
HasCategory(item) == Truthy(item.place_guess)

\* quote() of a value that is not a string
CategoryError(item) ==
    IF HasCategory(item) /\ item.place_guess.k # "str" THEN "TypeError" ELSE "none"

CategoryElement(item) ==
    SetAttr(SetAttr(Element("category", <<>>), "term", quote(item.place_guess.s)),
            "label", item.place_guess.s)

(* ------------------------------ inputs -------------------------------- *)

Record(id, time, place, geo, photos) ==
    [id |-> id, time_observed_at |-> time, place_guess |-> place,
     geojson |-> geo, observation_photos |-> photos]

SeqsUpTo(S, n) == UNION {[1..m -> S] : m \in 0..n}

IdValues == {JAbsent, JNull, JInt(42), JInt(7)}
TimeValues == {JAbsent, JStr(<<"2023-05-01T10:00:00Z">>)}
PlaceValues == {JAbsent, JNull, JStr(<<>>), JStr(<<"S", "F", " ", "B", "a", "y">>),
                JStr(<<"a", "&", "b", ",", "c", "/", "d">>)}
GeoValues == {GAbsent, GNull, GObj(CAbsent), GObj(CNull), GObj(CArr(-122, 37))}

UrlSquare == <<"x", "/", "s", "q", "u", "a", "r", "e", ".", "j", "p", "e", "g">>
UrlOther == <<"y", "/", "m", "e", "d", "i", "u", "m", ".", "j", "p", "g">>
Attribution == <<"(", "c", ")", " ", "A", "n", "n">>

\* Photo wrappers: without a photo, with a photo that has no usable url,
\* and with a url, with and without an attribution.
Wrappers ==
    {[photo |-> PAbsent],
     [photo |-> PObj(JNull, JStr(Attribution))],
     [photo |-> PObj(JStr(<<>>), JAbsent)],
     [photo |-> PObj(JStr(UrlSquare), JStr(Attribution))],
     [photo |-> PObj(JStr(UrlOther), JAbsent)]}

PhotoValues == {LAbsent, LNull} \cup {LArr(ws) : ws \in SeqsUpTo(Wrappers, MaxPhotos)}

\* Records that vary id, place and coordinates, records that have a
\* time, and records that vary the photo list.
FieldRecords ==
    {Record(id, JAbsent, place, geo, LAbsent) :
        id \in IdValues, place \in PlaceValues, geo \in GeoValues}
TimeRecords ==
    {Record(id, time, JAbsent, GAbsent, LAbsent) : id \in IdValues, time \in TimeValues}
PhotoRecords ==
    {Record(JInt(42), JAbsent, JStr(<<"S", "F", " ", "B", "a", "y">>), GAbsent, photos) :
        photos \in PhotoValues}
Records == FieldRecords \cup TimeRecords \cup PhotoRecords

\* The record that fills the other places of a longer `results` list.
FillRecords ==
    {Record(JInt(7), JStr(<<"2023-05-01T10:00:00Z">>),
            JStr(<<"a", "&", "b", ",", "c", "/", "d">>), GObj(CArr(-122, 37)),
            LArr(<<[photo |-> PObj(JStr(UrlSquare), JStr(Attribution))]>>))}

\* Documents: `results` missing, or a list of at most MaxResults records of
\* which at most one is not a fill record.
InsertAt(rs, p, r) == SubSeq(rs, 1, p) \o <<r>> \o SubSeq(rs, p + 1, Len(rs))
ResultLists ==
    SeqsUpTo(FillRecords, MaxResults)
    \cup {InsertAt(fs, p, r) :
            <<fs, p>> \in {x \in SeqsUpTo(FillRecords, MaxResults - 1) \X (0..MaxResults) :
                              x[2] <= Len(x[1])},
            r \in Records}
Documents == {[results |-> RAbsent]} \cup {[results |-> RArr(rs)] : rs \in ResultLists}

\* What the input source named on the command line holds: no file, a
\* file that cannot be read, text that is not JSON, or a document.
NoDocument == [results |-> RAbsent]
Missing == [kind |-> "missing", doc |-> NoDocument]
Unreadable == [kind |-> "unreadable", doc |-> NoDocument]
Invalid == [kind |-> "invalid", doc |-> NoDocument]
Json(doc) == [kind |-> "json", doc |-> doc]

\* The document of the source the run does not name.
OtherDocument ==
    [results |-> RArr(<<Record(JInt(99), JAbsent, JAbsent, GAbsent, LAbsent)>>)]

Argvs == {<<"to_atom.py">>, <<"to_atom.py", "observations.json">>}
Clock == {<<"2026-01-01T00:00:00Z">>}

FeedTitle == <<"California Brown Pelican Sightings">>
FeedId == <<"https://example.com/observations/feed">>
AuthorName == <<"Observation Feed Generator">>

(* ------------------------------- state -------------------------------- *)

VARIABLES
    argv,             \* sys.argv
    file,             \* the file argv[1] names
    stdin,            \* standard input
    pc,               \* where main() is
    json_data,        \* the parsed document
    now,              \* main's clock reading
    atom,             \* the feed element under construction
    i,                \* index in `results` of the record in process
    inaturalist_url,  \* the entry id of the record in process
    xml,              \* the string json_to_atom returned
    stdout,           \* what was written to standard output, write by write
    stderr,           \* the exception that ended the run
    exit_code,        \* the process's exit status once it ended
    rw                \* the URL rewrite on its own: the url and its rewrites

vars == <<argv, file, stdin, pc, json_data, now, atom, i, inaturalist_url,
          xml, stdout, stderr, exit_code, rw>>

NoFeed == Element("none", <<>>)
NoRewrite == [step |-> "off", url |-> <<>>, once |-> <<>>, twice |-> <<>>]

results == json_data.results.items

Init ==
    /\ argv \in Argvs
    /\ \E named \in {Missing, Unreadable, Invalid} \cup {Json(d) : d \in Documents} :
          IF Len(argv) > 1
          THEN file = named /\ stdin = Json(OtherDocument)
          ELSE /\ named.kind \in {"invalid", "json"}
               /\ stdin = named
               /\ file = Json(OtherDocument)
    /\ pc = "read"
    /\ json_data = NoDocument
    /\ now = <<>>
    /\ atom = NoFeed
    /\ i = 0
    /\ inaturalist_url = <<>>
    /\ xml = <<>>
    /\ stdout = <<>>
    /\ stderr = "none"
    /\ exit_code = -1
    /\ rw = NoRewrite

(* ------------------------------- main --------------------------------- *)

\* Variant: main() reads standard input whatever the arguments.
InputSourceStdin == stdin

\* The source main() reads: the file when an argument is given.
InputSource == IF Len(argv) > 1 THEN file ELSE stdin

\* The exception open() or json.load() raises on a source.
ReadError(source) == CASE source.kind = "missing" -> "FileNotFoundError"
                       [] source.kind = "unreadable" -> "PermissionError"
                       [] source.kind = "invalid" -> "JSONDecodeError"
                       [] OTHER -> "none"

\* open() and json.load(): an exception is not caught, the interpreter
\* reports it on standard error and exits with status 1.
ReadInput ==
    /\ pc = "read"
    /\ IF ReadError(InputSource) # "none"
       THEN /\ stderr' = ReadError(InputSource)
            /\ exit_code' = 1
            /\ pc' = "exited"
            /\ UNCHANGED json_data
       ELSE /\ json_data' = InputSource.doc
            /\ pc' = "clock"
            /\ UNCHANGED <<stderr, exit_code>>
    /\ UNCHANGED <<argv, file, stdin, now, atom, i, inaturalist_url, xml, stdout, rw>>

\* now = datetime.datetime.utcnow().strftime(...)
ReadClock ==
    /\ pc = "clock"
    /\ now' \in Clock
    /\ pc' = "feed"
    /\ UNCHANGED <<argv, file, stdin, json_data, atom, i, inaturalist_url, xml,
                   stdout, stderr, exit_code, rw>>

(* ---------------------------- json_to_atom ---------------------------- *)

\* The feed element with title, id, updated and author.
FeedHead(feed_title, feed_id, author_name, feed_updated) ==
    LET root == SetAttr(Element("feed", <<>>), "xmlns", <<"http://www.w3.org/2005/Atom">>)
        author == SubElement(Element("author", <<>>),
                             WithText(Element("name", <<>>), Text(author_name)))
    IN  SubElement(SubElement(SubElement(SubElement(root,
            WithText(Element("title", <<>>), Text(feed_title))),
            WithText(Element("id", <<>>), Text(feed_id))),
            WithText(Element("updated", <<>>), Text(feed_updated))),
            author)

BuildFeedHead ==
    /\ pc = "feed"
    /\ atom' = FeedHead(FeedTitle, FeedId, AuthorName, now)
    /\ i' = 1
    /\ pc' = "loop"
    /\ UNCHANGED <<argv, file, stdin, json_data, now, inaturalist_url, xml,
                   stdout, stderr, exit_code, rw>>

\* entry = ET.SubElement(atom, "entry") and its id
EntryId ==
    /\ pc = "loop"
    /\ i <= Len(results)
    /\ inaturalist_url' = InaturalistUrl(results[i])
    /\ atom' = SubElementOfEntry(SubElement(atom, Element("entry", <<>>)),
                   WithText(Element("id", <<>>), Text(InaturalistUrl(results[i]))))
    /\ pc' = "title"
    /\ UNCHANGED <<argv, file, stdin, json_data, now, i, xml, stdout, stderr,
                   exit_code, rw>>

\* title and updated
EntryTitle ==
    /\ pc = "title"
    /\ atom' = SubElementOfEntry(
                   SubElementOfEntry(atom,
                       WithText(Element("title", <<>>), Text(title_text(results[i])))),
                   WithText(Element("updated", <<>>), TextOf(results[i].time_observed_at)))
    /\ pc' = "content"
    /\ UNCHANGED <<argv, file, stdin, json_data, now, i, inaturalist_url, xml,
                   stdout, stderr, exit_code, rw>>

\* content: the element is appended first and gets its text at the end
EntryContent ==
    /\ pc = "content"
    /\ IF ContentError(results[i]) # "none"
       THEN /\ stderr' = ContentError(results[i])
            /\ exit_code' = 1
            /\ pc' = "exited"
            /\ atom' = SubElementOfEntry(atom,
                           SetAttr(Element("content", <<>>), "type", <<"html">>))
       ELSE /\ atom' = SubElementOfEntry(atom, ContentElement(results[i]))
            /\ pc' = "enclosures"
            /\ UNCHANGED <<stderr, exit_code>>
    /\ UNCHANGED <<argv, file, stdin, json_data, now, i, inaturalist_url, xml,
                   stdout, rw>>

RECURSIVE SubElementsOfEntry(_, _)
SubElementsOfEntry(feed, children) ==
    IF children = <<>> THEN feed
    ELSE SubElementsOfEntry(SubElementOfEntry(feed, Head(children)), Tail(children))

\* the second pass over the photos: the enclosure links
EntryEnclosures ==
    /\ pc = "enclosures"
    /\ IF PhotosError(results[i]) # "none"
       THEN /\ stderr' = PhotosError(results[i])
            /\ exit_code' = 1
            /\ pc' = "exited"
            /\ UNCHANGED atom
       ELSE /\ atom' = SubElementsOfEntry(atom, EnclosureLinks(results[i]))
            /\ pc' = "alternate"
            /\ UNCHANGED <<stderr, exit_code>>
    /\ UNCHANGED <<argv, file, stdin, json_data, now, i, inaturalist_url, xml,
                   stdout, rw>>

\* the link to the observation page
EntryAlternate ==
    /\ pc = "alternate"
    /\ atom' = SubElementOfEntry(atom, AlternateLink(inaturalist_url))
    /\ pc' = "category"
    /\ UNCHANGED <<argv, file, stdin, json_data, now, i, inaturalist_url, xml,
                   stdout, stderr, exit_code, rw>>

\* the category, and on to the next record
EntryCategory ==
    /\ pc = "category"
    /\ IF CategoryError(results[i]) # "none"
       THEN /\ stderr' = CategoryError(results[i])
            /\ exit_code' = 1
            /\ pc' = "exited"
            /\ UNCHANGED <<atom, i>>
       ELSE /\ atom' = IF HasCategory(results[i])
                       THEN SubElementOfEntry(atom, CategoryElement(results[i]))
                       ELSE atom
            /\ i' = i + 1
            /\ pc' = "loop"
            /\ UNCHANGED <<stderr, exit_code>>
    /\ UNCHANGED <<argv, file, stdin, json_data, now, inaturalist_url, xml,
                   stdout, rw>>

\* return format_xml(atom), once the loop is over
Return ==
    /\ pc = "loop"
    /\ i > Len(results)
    /\ xml' = format_xml(atom)
    /\ pc' = "print"
    /\ UNCHANGED <<argv, file, stdin, json_data, now, atom, i, inaturalist_url,
                   stdout, stderr, exit_code, rw>>

\* print(...): the string and a newline; main returns and the process
\* exits with status 0.
PrintFeed ==
    /\ pc = "print"
    /\ stdout' = Append(stdout, [text |-> xml, end |-> "\n"])
    /\ exit_code' = 0
    /\ pc' = "exited"
    /\ UNCHANGED <<argv, file, stdin, json_data, now, atom, i, inaturalist_url,
                   xml, stderr, rw>>

Next ==
    \/ ReadInput
    \/ ReadClock
    \/ BuildFeedHead
    \/ EntryId
    \/ EntryTitle
    \/ EntryContent
    \/ EntryEnclosures
    \/ EntryAlternate
    \/ EntryCategory
    \/ Return
    \/ PrintFeed

Spec == Init /\ [][Next]_vars

(* ----------------------- the rewrite on its own ------------------------ *)

\* URLs assembled from pieces of the two file names, so that whole,
\* split, adjacent and near occurrences of square.jpeg all occur.
Fragments ==
    {SquareJpeg, LargeJpeg, <<"s", "q", "u">>, <<"a", "r", "e", ".", "j", "p", "e", "g">>,
     <<"s">>, <<"q", "u", "a", "r", "e", ".", "j", "p", "e", "g">>, <<"x", "/">>,
     <<"s", "q", "u", "a", "r", "e", ".">>}

RECURSIVE Concat(_)
Concat(ss) == IF ss = <<>> THEN <<>> ELSE Head(ss) \o Concat(Tail(ss))

RewriteUrls == {Concat(fs) : fs \in SeqsUpTo(Fragments, MaxFrags)}

InitRewrite ==
    /\ argv = <<"to_atom.py">>
    /\ file = Missing
    /\ stdin = Invalid
    /\ pc = "off"
    /\ json_data = NoDocument
    /\ now = <<>>
    /\ atom = NoFeed
    /\ i = 0
    /\ inaturalist_url = <<>>
    /\ xml = <<>>
    /\ stdout = <<>>
    /\ stderr = "none"
    /\ exit_code = -1
    /\ \E u \in RewriteUrls : rw = [step |-> "url", url |-> u, once |-> <<>>, twice |-> <<>>]

\* photo_url = url.replace("square.jpeg", "large.jpeg")
RewriteUrl ==
    /\ rw.step = "url"
    /\ rw' = [rw EXCEPT !.step = "once", !.once = photo_url(rw.url)]
    /\ UNCHANGED <<argv, file, stdin, pc, json_data, now, atom, i, inaturalist_url,
                   xml, stdout, stderr, exit_code>>

\* the same rewrite applied to its own result
RewriteAgain ==
    /\ rw.step = "once"
    /\ rw' = [rw EXCEPT !.step = "twice", !.twice = photo_url(rw.once)]
    /\ UNCHANGED <<argv, file, stdin, pc, json_data, now, atom, i, inaturalist_url,
                   xml, stdout, stderr, exit_code>>

NextRewrite ==
    \/ RewriteUrl
    \/ RewriteAgain

SpecRewrite == InitRewrite /\ [][NextRewrite]_vars

(* ---------------------------- properties ------------------------------ *)

\* Whether old occurs in s.
Contains(s, old) ==
    \E n \in 1..(Len(s) - Len(old) + 1) : SubSeq(s, n, n + Len(old) - 1) = old

\* The entries of the feed under construction, and those whose record the
\* loop has finished.
Entries == SelectSeq(atom.kids, LAMBDA e : e.tag = "entry")
Finished(k) == k \in 1..Len(Entries) /\ (k < i \/ pc \in {"print", "exited"})
                /\ stderr = "none"

Kids(e, tag) == SelectSeq(e.kids, LAMBDA c : c.tag = tag)
Attr(e, name) == LET a == SelectSeq(e.attrs, LAMBDA x : x.name = name) IN a[1].value
HasAttr(e, name) == SelectSeq(e.attrs, LAMBDA x : x.name = name) # <<>>
Links(e, rel) ==
    SelectSeq(e.kids, LAMBDA c : c.tag = "link" /\ HasAttr(c, "rel") /\ Attr(c, "rel") = <<rel>>)
ContentText(e) == Kids(e, "content")[1].text.s

\* The returned string read back: the lines of the entries' id elements.
OutputLines(text, form, tag, indent) ==
    SelectSeq(text, LAMBDA l : l.form = form /\ l.tag = tag /\ l.indent = indent)
Returned == pc = "print" \/ (pc = "exited" /\ exit_code = 0)

UnknownLocation ==
    <<"U", "n", "k", "n", "o", "w", "n", " ", "l", "o", "c", "a", "t", "i", "o", "n">>
Unknown == <<"U", "n", "k", "n", "o", "w", "n">>
None == <<"N", "o", "n", "e">>

\* The id the spec gives to the entry of a record.
SpecEntryId(r) ==
    <<"https://www.inaturalist.org/observations/">>
    \o (CASE r.id.k = "int" -> IntStr(r.id.n) [] r.id.k = "str" -> r.id.s [] OTHER -> None)

\* C1: the returned feed has one entry per element of `results`, in the
\* order of `results`: the entry ids read from the output are the
\* observation URLs of the records' ids, first to last, an absent id as
\* None; without a `results` key the feed has no entry and no error is
\* raised.
C1_OneEntryPerRecord ==
    /\ Returned =>
          /\ Len(OutputLines(xml, "open", "entry", 2)) = Len(results)
          /\ LET ids == OutputLines(xml, "leaf", "id", 4)
             IN  /\ Len(ids) = Len(results)
                 /\ \A k \in 1..Len(ids) : ids[k].text = SpecEntryId(results[k])
    /\ (atom # NoFeed /\ json_data.results.k = "absent") =>
          /\ stderr = "none"
          /\ Entries = <<>>
          /\ pc = "exited" => exit_code = 0

C1_Witness ==
    /\ Returned
    /\ Len(results) = 2
    /\ results[1].id.k = "absent"
    /\ results[2].id = JInt(7)
    /\ OutputLines(xml, "leaf", "id", 4)[1].text = <<"https://www.inaturalist.org/observations/", "N", "o", "n", "e">>

\* C3: the title is "Brown Pelican at {place}", place being place_guess
\* when the record has the key (a null renders as None, an empty string as
\* nothing) and "Unknown location" when it has not; a record without
\* place_guess gets "Brown Pelican at Unknown location" and no category.
C3_Title ==
    \A k \in 1..Len(Entries) : Finished(k) =>
        LET place == results[k].place_guess
            e == Entries[k]
        IN  /\ Len(Kids(e, "title")) = 1
            /\ Kids(e, "title")[1].text =
                  Text(<<"Brown Pelican at ">>
                       \o (CASE place.k = "absent" -> UnknownLocation
                             [] place.k = "str" -> place.s
                             [] OTHER -> None))
            /\ place.k = "absent" => Kids(e, "category") = <<>>

C3_Witness ==
    /\ Len(Entries) = 2 /\ Finished(2)
    /\ results[1].place_guess.k = "absent"
    /\ Kids(Entries[1], "title")[1].text.s = <<"Brown Pelican at ">> \o UnknownLocation
    /\ results[2].place_guess.k = "str"
    /\ results[2].place_guess.s # <<>>

\* C4 as stated: the content begins with <div><p>Location: X</p>, X being
\* place_guess when it is truthy and Unknown when it is absent, null or
\* empty, and ends with </div>.
C4_LocationOrUnknown ==
    \A k \in 1..Len(Entries) : Finished(k) =>
        LET place == results[k].place_guess
            html == ContentText(Entries[k])
            head == <<"<div><p>Location: ">>
                    \o (IF place.k = "str" /\ place.s # <<>> THEN place.s ELSE Unknown)
                    \o <<"</p>">>
        IN  /\ Len(html) >= Len(head)
            /\ SubSeq(html, 1, Len(head)) = head
            /\ html[Len(html)] = "</div>"

\* The percent-encoding of the model's place names, written out.
SpecTerm(place) ==
    CASE place = <<"S", "F", " ", "B", "a", "y">> -> <<"S", "F", "%", "2", "0", "B", "a", "y">>
      [] place = <<"a", "&", "b", ",", "c", "/", "d">>
           -> <<"a", "%", "2", "6", "b", "%", "2", "C", "c", "/", "d">>

\* C5: an entry has a category exactly when place_guess is a non-empty
\* string; there is one, its label is place_guess and its term is
\* place_guess percent-encoded.  Absent, null and empty give none.
C5_Category ==
    \A k \in 1..Len(Entries) : Finished(k) =>
        LET place == results[k].place_guess
            cats == Kids(Entries[k], "category")
        IN  IF place.k = "str" /\ place.s # <<>>
            THEN /\ Len(cats) = 1
                 /\ Attr(cats[1], "label") = place.s
                 /\ Attr(cats[1], "term") = SpecTerm(place.s)
            ELSE cats = <<>>

C5_Witness ==
    /\ Len(Entries) = 2 /\ Finished(2)
    /\ results[1].place_guess = JStr(<<>>)
    /\ results[2].place_guess = JStr(<<"a", "&", "b", ",", "c", "/", "d">>)
    /\ Len(Kids(Entries[2], "category")) = 1

\* C6: the content has a Google Maps paragraph exactly when
\* geojson.coordinates is present and not null; the link is
\* https://www.google.com/maps?q={lat},{lon} with lat = coordinates[1] and
\* lon = coordinates[0], and its text is "{lat}, {lon}".
C6_MapsLink ==
    \A k \in 1..Len(Entries) : Finished(k) =>
        LET geo == results[k].geojson
            html == ContentText(Entries[k])
            present == geo.k = "obj" /\ geo.coordinates.k = "arr"
        IN  /\ present <=> \E n \in 1..Len(html) : html[n] = "<p>Coordinates: <a href=\""
            /\ present =>
                 Contains(html,
                     <<"<p>Coordinates: <a href=\"", "https://www.google.com/maps?q=">>
                     \o IntStr(geo.coordinates.lat) \o <<",">> \o IntStr(geo.coordinates.lon)
                     \o <<"\" target=\"_blank\">">>
                     \o IntStr(geo.coordinates.lat) \o <<", ">> \o IntStr(geo.coordinates.lon)
                     \o <<"</a></p>">>)

\* coordinates [-122, 37] give q=37,-122
C6_Witness ==
    /\ Len(Entries) = 1 /\ Finished(1)
    /\ results[1].geojson = GObj(CArr(-122, 37))
    /\ Contains(ContentText(Entries[1]),
                <<"https://www.google.com/maps?q=", "3", "7", ",", "-", "1", "2", "2">>)

\* The src values of the <img> tags of an HTML text, in order.
RECURSIVE ImgSrcs(_)
ImgSrcs(html) ==
    IF html = <<>> THEN <<>>
    ELSE IF Head(html) = "<div><img src=\""
         THEN LET rest == Tail(html)
                  ends == {n \in 1..Len(rest) : rest[n] = "\" alt=\"Observation photo\"/>"}
                  stop == CHOOSE n \in ends : \A m \in ends : n <= m
              IN  <<SubSeq(rest, 1, stop - 1)>> \o ImgSrcs(SubSeq(rest, stop + 1, Len(rest)))
         ELSE ImgSrcs(Tail(html))

Hrefs(links) == [n \in 1..Len(links) |-> Attr(links[n], "href")]

PhotoList(r) == IF r.observation_photos.k = "arr" THEN r.observation_photos.items ELSE <<>>

UrlKeyPresent(p) == p.photo.k = "obj" /\ p.photo.url.k # "absent"
UrlUsable(p) == p.photo.k = "obj" /\ p.photo.url.k = "str" /\ p.photo.url.s # <<>>

\* The urls of photo records, in order, after the rewrite.
SpecPhotoUrls(photos) ==
    [n \in 1..Len(photos) |-> StrReplace(photos[n].photo.url.s, SquareJpeg, LargeJpeg)]

\* C2 as stated: one enclosure link per photo record whose photo.url is
\* present, in the order of observation_photos, with the rewritten url as
\* href, the same sequence as the <img src> values of the content.
C2_EnclosurePerPresentUrl ==
    \A k \in 1..Len(Entries) : Finished(k) =>
        LET hrefs == Hrefs(Links(Entries[k], "enclosure"))
        IN  /\ hrefs = SpecPhotoUrls(SelectSeq(PhotoList(results[k]), UrlKeyPresent))
            /\ hrefs = ImgSrcs(ContentText(Entries[k]))

\* C2, amended: one enclosure link per photo record whose photo.url is
\* present, not null and not empty, in the order of observation_photos,
\* with href the url after the square.jpeg -> large.jpeg rewrite; the hrefs
\* are the <img src> values of the entry's content, in the same order; a
\* record without photos, or whose photos have no such url, has none.
C2_EnclosurePerUsableUrl ==
    \A k \in 1..Len(Entries) : Finished(k) =>
        LET hrefs == Hrefs(Links(Entries[k], "enclosure"))
        IN  /\ hrefs = SpecPhotoUrls(SelectSeq(PhotoList(results[k]), UrlUsable))
            /\ hrefs = ImgSrcs(ContentText(Entries[k]))
            /\ (\A n \in 1..Len(PhotoList(results[k])) : ~UrlUsable(PhotoList(results[k])[n]))
                 => Links(Entries[k], "enclosure") = <<>>

\* a photo whose url is the empty string, then one whose url is rewritten
C2_Witness ==
    /\ Len(Entries) = 1 /\ Finished(1)
    /\ Len(PhotoList(results[1])) = 2
    /\ PhotoList(results[1])[1].photo.url = JStr(<<>>)
    /\ Hrefs(Links(Entries[1], "enclosure"))
         = << <<"x", "/", "l", "a", "r", "g", "e", ".", "j", "p", "e", "g">> >>
    /\ ImgSrcs(ContentText(Entries[1])) = Hrefs(Links(Entries[1], "enclosure"))

\* C7: the rewrite is idempotent: applied to its own result it changes
\* nothing, and after one pass no square.jpeg is left.
C7_RewriteIdempotent ==
    /\ rw.step \in {"once", "twice"} => ~Contains(rw.once, SquareJpeg)
    /\ rw.step = "twice" => rw.twice = rw.once

\* a url with two adjacent occurrences, both rewritten
C7_Witness ==
    /\ rw.step = "twice"
    /\ rw.url = SquareJpeg \o SquareJpeg \o <<"s">>
    /\ rw.once = LargeJpeg \o LargeJpeg \o <<"s">>

\* The source the command line names.
Named == IF Len(argv) > 1 THEN file ELSE stdin

\* A whole feed for a document: the declaration, the feed element opened
\* and closed, and between them one entry, opened and closed, per record.
CompleteFeed(text, doc) ==
    /\ Len(text) >= 3
    /\ text[1].form = "decl" /\ text[1].text = <<"<?xml version=\"1.0\" encoding=\"utf-8\"?>">>
    /\ text[2].form = "open" /\ text[2].tag = "feed" /\ text[2].indent = 0
    /\ text[Len(text)].form = "close" /\ text[Len(text)].tag = "feed"
    /\ Len(OutputLines(text, "open", "entry", 2)) = Len(doc.results.items)
    /\ Len(OutputLines(text, "close", "entry", 2)) = Len(doc.results.items)
    /\ LET ids == OutputLines(text, "leaf", "id", 4)
       IN  /\ Len(ids) = Len(doc.results.items)
           /\ \A k \in 1..Len(ids) : ids[k].text = SpecEntryId(doc.results.items[k])

HasPiece(html, piece) == \E n \in 1..Len(html) : html[n] = piece

KidKind(c) == IF c.tag = "link" THEN Attr(c, "rel")[1] ELSE c.tag
Rank(kind) == CASE kind = "id" -> 1 [] kind = "title" -> 2 [] kind = "updated" -> 3
                [] kind = "content" -> 4 [] kind = "enclosure" -> 5
                [] kind = "alternate" -> 6 [] kind = "category" -> 7 [] OTHER -> 0

\* C10: at every moment the children of every entry stand in the order
\* id, title, updated, content, enclosure links, alternate link, category,
\* each but the enclosure links at most once; a finished entry has
\* exactly one alternate link, whose href is the entry's id text; and the
\* children of the k-th entry come from the k-th record: its id, its
\* place, its photos.
C10_ChildOrder ==
    \A k \in 1..Len(Entries) :
        LET e == Entries[k]
            r == results[k]
            n == Len(e.kids)
        IN  /\ \A a \in 1..n : Rank(KidKind(e.kids[a])) > 0
            /\ \A a, b \in 1..n : a < b =>
                  /\ Rank(KidKind(e.kids[a])) <= Rank(KidKind(e.kids[b]))
                  /\ KidKind(e.kids[a]) = KidKind(e.kids[b]) => KidKind(e.kids[a]) = "enclosure"
            /\ n >= 1 => e.kids[1].text = Text(SpecEntryId(r))
            /\ \A a \in 1..n :
                  /\ KidKind(e.kids[a]) = "alternate"
                        => Attr(e.kids[a], "href") = Kids(e, "id")[1].text.s
                  /\ KidKind(e.kids[a]) = "enclosure"
                        => \E m \in 1..Len(PhotoList(r)) :
                              /\ UrlUsable(PhotoList(r)[m])
                              /\ Attr(e.kids[a], "href")
                                   = StrReplace(PhotoList(r)[m].photo.url.s, SquareJpeg, LargeJpeg)
                  /\ KidKind(e.kids[a]) = "category"
                        => Attr(e.kids[a], "label") = r.place_guess.s
            /\ Finished(k) =>
                  /\ n >= 5
                  /\ [a \in 1..4 |-> KidKind(e.kids[a])] = <<"id", "title", "updated", "content">>
                  /\ Len(Links(e, "alternate")) = 1

\* two finished entries of different records, the second with an
\* enclosure link and a category, the first with neither
C10_Witness ==
    /\ Len(Entries) = 2 /\ Finished(2)
    /\ results[1].id # results[2].id
    /\ [a \in 1..Len(Entries[1].kids) |-> KidKind(Entries[1].kids[a])]
         = <<"id", "title", "updated", "content", "alternate">>
    /\ [a \in 1..Len(Entries[2].kids) |-> KidKind(Entries[2].kids[a])]
         = <<"id", "title", "updated", "content", "enclosure", "alternate", "category">>

====
